---- MODULE Spec2Model ----
(***************************************************************************)
(* ConnectifyVPN database lifecycle: DatabaseManager (src/src/core/        *)
(* database.py) and the migration script around it, MigrationManager and   *)
(* main() (src/scripts/migrate.py), as a state machine.                    *)
(*                                                                         *)
(* The two backends are the environment.  A call on a backend answers      *)
(* when the backend is reachable and raises when it is not; a call on an   *)
(* attribute that is still None raises AttributeError/TypeError.           *)
(*                                                                         *)
(* get_session is an undecorated async generator that seed_database        *)
(* enters with "async with".  The model takes it as the scoped-session     *)
(* protocol its body describes, the one contextlib.asynccontextmanager     *)
(* would drive: run to the yield on entry, resume after the yield when     *)
(* the caller's block ends normally, throw the block's exception in at     *)
(* the yield when it raises.                                               *)
(*                                                                         *)
(* backup_database and restore_database use Path and os, which database.py *)
(* never imports: as the file stands both raise NameError before a child   *)
(* is spawned.  The model takes the two names as resolved and follows the  *)
(* bodies as written, so that what they do with the child can be checked.  *)
(*                                                                         *)
(* One run of scripts/migrate.py is one step: a new manager, initialize(), *)
(* the command, cleanup().  The queueing of the engine's connection pool   *)
(* is the library's; the code decides its size.                            *)
(*                                                                         *)
(* pg_dump and pg_restore are the environment too: what they write and     *)
(* read follows from the arguments the code gives them.  The files on disk *)
(* and the indexes of the store are followed where an operation is looked  *)
(* at on its own (TripSpec, IndexSpec); for a run of the script and for    *)
(* the calls of CliSpec, whether a path exists is an input and the indexes *)
(* are left out.  Settings() is followed as far as the five values that    *)
(* validate() requires.                                                    *)
(***************************************************************************)
EXTENDS Integers, Sequences, FiniteSets, TLC

\* ------------------------------------------------------------------ bounds

\* initialize() calls explored per supervisor
MaxInit == 2
\* close() calls explored per supervisor
MaxClose == 2
\* rows of each kind a store may hold before the first operation
MaxPre == 1
\* rows a caller's block adds in one scoped session
MaxWrites == 1
\* rows of one kind the store holds at most
MaxRows == 2
\* concurrent get_session callers
NCallers == 4
\* largest configured pool_size
MaxPoolSize == 2
\* largest configured max_overflow
MaxOverflow == 1

\* ------------------------------------------------------- program constants

\* len(plans), the default plan batch
PlanBatch == 2
\* len(servers), the default server batch
ServerBatch == 3

VARIABLES
    engine,          \* self.engine: 0 is None, n the n-th engine created
    session_factory, \* self.session_factory: 0 is None, n bound to engine n
    redis_client,    \* self.redis_client: 0 is None, n the n-th client created
    engines_created, \* engines constructed by this supervisor so far
    clients_created, \* cache clients constructed by this supervisor so far
    pool_disposals,  \* engine id -> number of dispose() calls it received
    client_closes,   \* client id -> number of close() calls it received
    close_calls,     \* DatabaseManager.close() calls so far
    pgUp,            \* the relational backend is reachable
    redisUp,         \* the cache backend is reachable
    store,           \* committed rows of the relational store
    ret,             \* what the last operation returned or raised
    proc,            \* the last backup_database / restore_database call
    cli,             \* the last run of scripts/migrate.py
    pool,            \* the engine's connection pool and its callers
    files,           \* the artifacts on disk
    trip,            \* a caller's backup / drop / create / restore script
    indexes,         \* the indexes of the relational store
    settings         \* the last Settings() constructed

vars == <<engine, session_factory, redis_client, engines_created,
          clients_created, pool_disposals, client_closes, close_calls,
          pgUp, redisUp, store, ret, proc, cli, pool,
          files, trip, indexes, settings>>

supervisor == <<engine, session_factory, redis_client, engines_created,
                clients_created, pool_disposals, client_closes, close_calls>>

\* ------------------------------------------------------------ result record

NoSeed == [ran |-> FALSE, raised |-> FALSE, plan_count |-> -1,
           server_count |-> -1, plans_inserted |-> 0, servers_inserted |-> 0,
           phase_fault |-> {}]

NoSession == [entered |-> FALSE, block_exc |-> "ok", block_commits |-> 0,
              log |-> <<>>, before |-> [plans |-> 0, inactive |-> 0, servers |-> 0],
              after |-> [plans |-> 0, inactive |-> 0, servers |-> 0]]

\* A create_indexes run: the statements in the order run, the statement that
\* raised (0: none) and the indexes found.
NoBatch == [stmts |-> <<>>, fault_at |-> 0, before |-> {}]

NoRet == [op |-> "none", raised |-> FALSE, health |-> {}, stats |-> {},
          released |-> {}, sess |-> NoSession, seed |-> NoSeed, prev |-> NoSeed,
          batch |-> NoBatch]

Keys(mapping) == {p[1] : p \in mapping}

\* --------------------------------------------------------------- backends

\* A call through self.engine: AttributeError on None, a backend fault when
\* the relational store is unreachable.  A disposed engine opens a new pool on
\* its next use, which may or may not come up.
EngineCall(eng, disposals, up) ==
    IF eng = 0 THEN {"AttributeError"}
    ELSE IF ~up THEN {"fault"}
    ELSE IF disposals[eng] > 0 THEN {"ok", "fault"}
    ELSE {"ok"}

\* A call through self.redis_client, likewise.
RedisCall(client, closes, up) ==
    IF client = 0 THEN {"AttributeError"}
    ELSE IF ~up THEN {"fault"}
    ELSE IF closes[client] > 0 THEN {"ok", "fault"}
    ELSE {"ok"}

\* ------------------------------------------------------------ health_check

\* health_check with the relational probe outside any try.
health_check_unguarded(pg, rd) ==
    IF pg # "ok" THEN [raised |-> TRUE, health |-> {}]
    ELSE [raised |-> FALSE,
          health |-> {<<"postgres", TRUE>>, <<"redis", rd = "ok">>}]

\* health_check with both probes in one try: a relational fault skips the
\* cache probe.
health_check_chained(pg, rd) ==
    [raised |-> FALSE,
     health |-> {<<"postgres", pg = "ok">>, <<"redis", pg = "ok" /\ rd = "ok">>}]

\* health = {"postgres": False, "redis": False}; each probe in its own
\* try/except Exception: pass.
health_check(pg, rd) ==
    LET h0 == [postgres |-> FALSE, redis |-> FALSE]
        h1 == IF pg = "ok" THEN [h0 EXCEPT !.postgres = TRUE] ELSE h0
        h2 == IF rd = "ok" THEN [h1 EXCEPT !.redis = TRUE] ELSE h1
    IN [raised |-> FALSE,
        health |-> {<<"postgres", h2.postgres>>, <<"redis", h2.redis>>}]

HealthCheck ==
    \E pg \in EngineCall(engine, pool_disposals, pgUp),
       rd \in RedisCall(redis_client, client_closes, redisUp) :
        LET r == health_check(pg, rd)
        IN ret' = [NoRet EXCEPT !.op = "health_check", !.raised = r.raised,
                                !.health = r.health]
    /\ UNCHANGED <<supervisor, pgUp, redisUp, store, proc, cli, pool, files, trip, indexes, settings>>

\* --------------------------------------------------------------- get_stats

CacheInfoKeys == {"used_memory_human", "connected_clients", "total_commands_processed"}

\* redis_info.get(key, default)
InfoGet(info, key, default) == IF key \in info THEN "reported" ELSE default

\* The relational queries run outside any try; only the cache block is wrapped
\* in try/except Exception: pass.  info is the set of keys the cache reports.
get_stats(pg, rd, info) ==
    IF pg # "ok" THEN [raised |-> TRUE, stats |-> {}]
    ELSE
        LET s1 == {<<"postgres_size_bytes", "reported">>,
                   <<"postgres_connections", "reported">>}
            s2 == IF rd = "ok"
                  THEN s1 \cup
                       {<<"redis_memory", InfoGet(info, "used_memory_human", "N/A")>>,
                        <<"redis_connected_clients", InfoGet(info, "connected_clients", "0")>>,
                        <<"redis_total_commands_processed",
                          InfoGet(info, "total_commands_processed", "0")>>}
                  ELSE s1
        IN [raised |-> FALSE, stats |-> s2]

GetStats ==
    \E pg \in EngineCall(engine, pool_disposals, pgUp),
       rd \in RedisCall(redis_client, client_closes, redisUp),
       info \in {CacheInfoKeys, CacheInfoKeys \ {"used_memory_human"}, {}} :
        LET r == get_stats(pg, rd, info)
        IN ret' = [NoRet EXCEPT !.op = "get_stats", !.raised = r.raised,
                                !.stats = r.stats]
    /\ UNCHANGED <<supervisor, pgUp, redisUp, store, proc, cli, pool, files, trip, indexes, settings>>

\* -------------------------------------------------------------- initialize

\* _init_postgres then _init_redis: each assigns its attribute first and
\* probes second; a failed probe raises and leaves what was assigned.
\* initialize() that undoes the relational setup when the cache probe fails.
initialize_resets(sup, pgOk, rdOk) ==
    LET e == sup.engines_created + 1
        afterPg == [sup EXCEPT !.engine = e, !.session_factory = e,
                               !.engines_created = e]
        c == sup.clients_created + 1
        afterRd == [afterPg EXCEPT !.redis_client = c, !.clients_created = c]
    IN IF ~pgOk THEN [sup |-> afterPg, raised |-> TRUE]
       ELSE IF ~rdOk
            THEN [sup |-> [afterRd EXCEPT !.engine = 0, !.session_factory = 0],
                  raised |-> TRUE]
       ELSE [sup |-> afterRd, raised |-> FALSE]

\* initialize() that builds both resources before it probes either.
initialize_cache_first(sup, pgOk, rdOk) ==
    LET e == sup.engines_created + 1
        c == sup.clients_created + 1
        both == [sup EXCEPT !.engine = e, !.session_factory = e,
                            !.engines_created = e,
                            !.redis_client = c, !.clients_created = c]
    IN [sup |-> both, raised |-> ~(pgOk /\ rdOk)]

initialize(sup, pgOk, rdOk) ==
    LET e == sup.engines_created + 1
        afterPg == [sup EXCEPT !.engine = e, !.session_factory = e,
                               !.engines_created = e]
        c == sup.clients_created + 1
        afterRd == [afterPg EXCEPT !.redis_client = c, !.clients_created = c]
    IN IF ~pgOk THEN [sup |-> afterPg, raised |-> TRUE]
       ELSE IF ~rdOk THEN [sup |-> afterRd, raised |-> TRUE]
       ELSE [sup |-> afterRd, raised |-> FALSE]

Initialize ==
    /\ engines_created < MaxInit
    /\ LET r == initialize([engine |-> engine, session_factory |-> session_factory,
                            redis_client |-> redis_client,
                            engines_created |-> engines_created,
                            clients_created |-> clients_created], pgUp, redisUp)
       IN /\ engine' = r.sup.engine
          /\ session_factory' = r.sup.session_factory
          /\ redis_client' = r.sup.redis_client
          /\ engines_created' = r.sup.engines_created
          /\ clients_created' = r.sup.clients_created
          /\ ret' = [NoRet EXCEPT !.op = "initialize", !.raised = r.raised]
    /\ UNCHANGED <<pool_disposals, client_closes, close_calls, pgUp, redisUp, store,
                   proc, cli, pool, files, trip, indexes, settings>>

\* ------------------------------------------------------------------- close

\* close() without the two guards: dispose() or close() on None raises
\* AttributeError, and what follows it is not reached.
close_unguarded(eng, client, disposals, closes) ==
    IF eng = 0
    THEN [pool_disposals |-> disposals, client_closes |-> closes,
          released |-> {}, raised |-> TRUE]
    ELSE IF client = 0
    THEN [pool_disposals |-> [disposals EXCEPT ![eng] = @ + 1],
          client_closes |-> closes, released |-> {"engine"}, raised |-> TRUE]
    ELSE [pool_disposals |-> [disposals EXCEPT ![eng] = @ + 1],
          client_closes |-> [closes EXCEPT ![client] = @ + 1],
          released |-> {"engine", "redis_client"}, raised |-> FALSE]

\* if self.engine: dispose(); if self.redis_client: close().  Neither
\* attribute is reset afterwards.
close(eng, client, disposals, closes) ==
    [pool_disposals |-> IF eng # 0 THEN [disposals EXCEPT ![eng] = @ + 1]
                        ELSE disposals,
     client_closes |-> IF client # 0 THEN [closes EXCEPT ![client] = @ + 1]
                       ELSE closes,
     released |-> (IF eng # 0 THEN {"engine"} ELSE {})
                  \cup (IF client # 0 THEN {"redis_client"} ELSE {}),
     raised |-> FALSE]

Close ==
    /\ close_calls < MaxClose
    /\ LET r == close(engine, redis_client, pool_disposals, client_closes)
       IN /\ pool_disposals' = r.pool_disposals
          /\ client_closes' = r.client_closes
          /\ ret' = [NoRet EXCEPT !.op = "close", !.released = r.released,
                                  !.raised = r.raised]
    /\ close_calls' = close_calls + 1
    /\ UNCHANGED <<engine, session_factory, redis_client, engines_created,
                   clients_created, pgUp, redisUp, store, proc, cli, pool, files, trip, indexes, settings>>

\* ----------------------------------------------------------- AsyncSession

\* A session over the store: rows added and not yet committed are pending.
OpenSession(st) ==
    [store |-> st, pending |-> [plans |-> 0, servers |-> 0], block_commits |-> 0]

\* session.add on an autocommitting session: the row reaches the store at once.
SessionAdd_autocommit(s, kind) == [s EXCEPT !.store[kind] = @ + 1]

\* session.add(row): autoflush=False, so the row only joins the pending set.
SessionAdd(s, kind) == [s EXCEPT !.pending[kind] = @ + 1]

\* session.commit(): the pending rows reach the store in one transaction.
SessionCommit(s) ==
    [s EXCEPT !.store.plans = @ + s.pending.plans,
              !.store.servers = @ + s.pending.servers,
              !.pending = [plans |-> 0, servers |-> 0]]

\* session.rollback(): the pending rows are dropped.
SessionRollback(s) == [s EXCEPT !.pending = [plans |-> 0, servers |-> 0]]

\* for row in batch: session.add(row), n times
RECURSIVE AddRows(_, _, _)
AddRows(s, kind, n) ==
    IF n = 0 THEN s ELSE AddRows(SessionAdd(s, kind), kind, n - 1)

\* ------------------------------------------------------------- get_session

\* How a call or a block ends: normally, with an Exception, or with a
\* BaseException that is no Exception (a cancellation), which except
\* Exception does not catch.
Outcomes == {"ok", "Exception", "BaseException"}

\* The log entry of a call that ended with outcome o.
Mark(call, o) ==
    IF o = "ok" THEN call ELSE IF o = "Exception" THEN call \o "!" ELSE call \o "^"

\* get_session whose except clause re-raises without rolling back.
get_session_no_rollback(blk, commit, rollback) ==
    IF blk.exc # "ok" THEN [store |-> blk.s.store, log |-> <<"raise">>]
    ELSE IF commit = "ok"
    THEN [store |-> SessionCommit(blk.s).store, log |-> <<"commit", "return">>]
    ELSE [store |-> blk.s.store, log |-> <<Mark("commit", commit), "raise">>]

\* What follows the yield.  blk is the caller's block as it ended: the
\* session it left and how it ended.  Normal end: commit, and an Exception
\* from that commit lands in the except clause like the block's own.  The
\* session context closes after that, dropping whatever is still pending.
\* The log lists the calls get_session made, marked when they raised, and ends
\* with how the acquisition ended for the caller.
get_session(blk, commit, rollback) ==
    LET except(s, log) ==
            [store |-> (IF rollback = "ok" THEN SessionRollback(s) ELSE s).store,
             log |-> log \o <<Mark("rollback", rollback), "raise">>]
    IN IF blk.exc = "Exception" THEN except(blk.s, <<>>)
       ELSE IF blk.exc = "BaseException"
       THEN [store |-> blk.s.store, log |-> <<"raise">>]
       ELSE IF commit = "ok"
       THEN [store |-> SessionCommit(blk.s).store, log |-> <<"commit", "return">>]
       ELSE IF commit = "Exception" THEN except(blk.s, <<"commit!">>)
       ELSE [store |-> blk.s.store, log |-> <<"commit^", "raise">>]

\* A commit reaches the backend when something is pending; it cannot succeed
\* while the relational store is unreachable.
CommitOutcomes(blk, up) ==
    IF ~up /\ (blk.s.pending.plans + blk.s.pending.servers > 0)
    THEN Outcomes \ {"ok"}
    ELSE Outcomes

\* One acquisition around the block blk, from self.session_factory() on.
Acquire(factory, blk, commit, rollback) ==
    IF factory = 0
    THEN [NoSession EXCEPT !.log = <<"raise">>, !.before = blk.before,
                           !.after = blk.before]
    ELSE LET r == get_session(blk, commit, rollback)
         IN [entered |-> TRUE, block_exc |-> blk.exc,
             block_commits |-> blk.s.block_commits, log |-> r.log,
             before |-> blk.before, after |-> r.store]

Raised(sess) == sess.log[Len(sess.log)] = "raise"

\* A caller's block that adds n rows of one kind and then ends as exc says.
CallerBlock(st, kind, n, exc) ==
    [s |-> AddRows(OpenSession(st), kind, n), exc |-> exc, before |-> st]

ScopedSession ==
    /\ \E kind \in {"plans", "servers"}, n \in 0..MaxWrites,
          exc \in Outcomes, rollback \in {"ok", "Exception"} :
        /\ store[kind] + n <= MaxRows
        /\ LET blk == CallerBlock(store, kind, n, exc)
           IN \E commit \in CommitOutcomes(blk, pgUp) :
               LET a == Acquire(session_factory, blk, commit, rollback)
               IN /\ store' = a.after
                  /\ ret' = [NoRet EXCEPT !.op = "session", !.raised = Raised(a),
                                          !.sess = a]
    /\ UNCHANGED <<supervisor, pgUp, redisUp, proc, cli, pool, files, trip, indexes, settings>>

\* ----------------------------------------------------------- seed_database

\* Where one operation of a seed run may raise: the k-th add of a batch, a
\* count query, a commit, or the commit get_session issues on exit.
SeedFaults ==
    {<<"none", 0>>, <<"plan_count", 0>>, <<"plan_commit", 0>>,
     <<"server_count", 0>>, <<"server_commit", 0>>, <<"exit_commit", 0>>}
    \cup {<<"plan_add", k>> : k \in 1..PlanBatch}
    \cup {<<"server_add", k>> : k \in 1..ServerBatch}

\* SELECT COUNT(*) FROM plans WHERE is_active = true
ActivePlanCount(st) == st.plans

\* SELECT COUNT(*) FROM servers
ServerCount(st) == st.servers

\* A plan guard that never skips.
PlanSeedSkipped_never(plan_count) == FALSE

\* if plan_count > 0: print("already contains data"); return
PlanSeedSkipped(plan_count) == plan_count > 0

\* if server_count == 0: insert the server batch
ServerSeedWanted(server_count) == server_count = 0

\* session.flush() in place of the commit inside the block: nothing reaches
\* the store before the block ends.
BlockCommit_flush(s) == [s EXCEPT !.block_commits = @ + 1]

\* await session.commit() inside the block
BlockCommit(s) == [SessionCommit(s) EXCEPT !.block_commits = @ + 1]

\* The servers half of the block, reached only after the plan commit.
SeedServers(s, f, plan_count) ==
    IF f[1] = "server_count"
    THEN [s |-> s, raised |-> TRUE, plan_count |-> plan_count,
          server_count |-> -1, hit |-> "server_count"]
    ELSE LET server_count == ServerCount(s.store)
             out(t, r, h) == [s |-> t, raised |-> r, plan_count |-> plan_count,
                              server_count |-> server_count, hit |-> h]
         IN IF ~ServerSeedWanted(server_count) THEN out(s, FALSE, "none")
            ELSE IF f[1] = "server_add"
            THEN out(AddRows(s, "servers", f[2] - 1), TRUE, "server_add")
            ELSE LET added == AddRows(s, "servers", ServerBatch)
                 IN IF f[1] = "server_commit"
                    THEN out(added, TRUE, "server_commit")
                    ELSE out(BlockCommit(added), FALSE, "none")

\* The block with a plan guard that skips the plan batch only and goes on
\* to the server check.
seed_block_servers_ungated(st, f) ==
    LET s0 == OpenSession(st)
        out(t, r, pc, h) == [s |-> t, raised |-> r, plan_count |-> pc,
                             server_count |-> -1, hit |-> h]
    IN IF f[1] = "plan_count" THEN out(s0, TRUE, -1, "plan_count")
       ELSE LET plan_count == ActivePlanCount(st)
            IN IF PlanSeedSkipped(plan_count) THEN SeedServers(s0, f, plan_count)
               ELSE IF f[1] = "plan_add"
               THEN out(AddRows(s0, "plans", f[2] - 1), TRUE, plan_count, "plan_add")
               ELSE LET added == AddRows(s0, "plans", PlanBatch)
                    IN IF f[1] = "plan_commit"
                       THEN out(added, TRUE, plan_count, "plan_commit")
                       ELSE SeedServers(BlockCommit(added), f, plan_count)

\* The body of the async with block, with the operation named by f raising
\* if the run gets to it.
seed_block(st, f) ==
    LET s0 == OpenSession(st)
        out(t, r, pc, h) == [s |-> t, raised |-> r, plan_count |-> pc,
                             server_count |-> -1, hit |-> h]
    IN IF f[1] = "plan_count" THEN out(s0, TRUE, -1, "plan_count")
       ELSE LET plan_count == ActivePlanCount(st)
            IN IF PlanSeedSkipped(plan_count) THEN out(s0, FALSE, plan_count, "none")
               ELSE IF f[1] = "plan_add"
               THEN out(AddRows(s0, "plans", f[2] - 1), TRUE, plan_count, "plan_add")
               ELSE LET added == AddRows(s0, "plans", PlanBatch)
                    IN IF f[1] = "plan_commit"
                       THEN out(added, TRUE, plan_count, "plan_commit")
                       ELSE SeedServers(BlockCommit(added), f, plan_count)

\* async with self.db.get_session() as session: <block>
seed_database(factory, st, f, rollback) ==
    LET b == seed_block(st, f)
        blk == [s |-> b.s, exc |-> IF b.raised THEN "Exception" ELSE "ok",
                before |-> st]
        a == Acquire(factory, blk,
                     IF f[1] = "exit_commit" THEN "Exception" ELSE "ok", rollback)
    IN [sess |-> a,
        seed |-> IF ~a.entered THEN [NoSeed EXCEPT !.ran = TRUE, !.raised = TRUE]
                 ELSE [ran |-> TRUE, raised |-> Raised(a),
                       plan_count |-> b.plan_count, server_count |-> b.server_count,
                       plans_inserted |-> a.after.plans - st.plans,
                       servers_inserted |-> a.after.servers - st.servers,
                       phase_fault |-> {b.hit} \ {"none"}]]

SeedDatabase ==
    /\ \E f \in (IF pgUp THEN SeedFaults ELSE {<<"plan_count", 0>>}),
          rollback \in {"ok", "Exception"} :
        LET r == seed_database(session_factory, store, f, rollback)
        IN /\ store' = r.sess.after
           /\ ret' = [NoRet EXCEPT !.op = "seed", !.raised = r.seed.raised,
                                   !.sess = r.sess, !.seed = r.seed,
                                   !.prev = IF ret.op = "seed" THEN ret.seed
                                            ELSE NoSeed]
    /\ UNCHANGED <<supervisor, pgUp, redisUp, proc, cli, pool, files, trip, indexes, settings>>

\* ------------------------------------------------ backup_database / restore

\* settings.database as Settings._init_database fills it; only the password
\* varies.  "postgres" is a password equal to the user name.
Passwords == {"", "s3cret", "postgres"}

DatabaseConfigs ==
    [host : {"localhost"}, port : {5432}, name : {"connectifyvpn"},
     user : {"postgres"}, password : Passwords]

\* os.environ of the calling process, as a set of (name, value) pairs; the
\* second one already carries a PGPASSWORD.
Environs ==
    {{<<"PATH", "/usr/bin">>},
     {<<"PATH", "/usr/bin">>, <<"PGPASSWORD", "stale">>}}

\* datetime.now().strftime("%Y%m%d_%H%M%S")
Timestamps == {"20240101_000000"}

\* Paths a caller hands to backup and restore.
Paths == {"/backups", "/tmp/a.dump"}

\* What the child process does: the exec may fail, the task awaiting
\* communicate() may be cancelled, otherwise the child exits with a code and
\* what it wrote to stderr.
ChildRuns ==
    {c \in [spawn : {"ok", "OSError"}, wait : {"exit", "CancelledError"},
            returncode : 0..1, stderr : {"", "pg: fatal"}] :
        /\ c.spawn = "OSError" =>
              (c.wait = "exit" /\ c.returncode = 0 /\ c.stderr = "")
        /\ c.wait = "CancelledError" => (c.returncode = 0 /\ c.stderr = "")}

\* str(self.settings.database.port)
Str(n) == IF n = 5432 THEN "5432" ELSE "?"

NoConfig == [host |-> "", port |-> 0, name |-> "", user |-> "", password |-> ""]

NoError == [type |-> "none", message |-> ""]

NoProc ==
    [op |-> "none", cfg |-> NoConfig, environ |-> {}, backup_path |-> "",
     exists |-> FALSE, now |-> "", child |-> "none", argv |-> <<>>, env |-> {},
     spawned |-> 0, log |-> <<>>, returncode |-> -1, stderr |-> "",
     returned |-> FALSE, value |-> "", error |-> NoError]

\* cmd of backup_database with the credential as an argument.
PgDumpCmd_password(cfg, filepath) ==
    <<"pg_dump", "-h", cfg.host, "-p", Str(cfg.port), "-U", cfg.user,
      "-d", cfg.name, "--password", cfg.password, "-f", filepath,
      "--format=custom", "--verbose">>

\* cmd of backup_database without the archive format: a plain SQL script.
PgDumpCmd_plain(cfg, filepath) ==
    <<"pg_dump", "-h", cfg.host, "-p", Str(cfg.port), "-U", cfg.user,
      "-d", cfg.name, "-f", filepath, "--verbose">>

\* cmd of backup_database
PgDumpCmd(cfg, filepath) ==
    <<"pg_dump", "-h", cfg.host, "-p", Str(cfg.port), "-U", cfg.user,
      "-d", cfg.name, "-f", filepath, "--format=custom", "--verbose">>

\* cmd of restore_database
PgRestoreCmd(cfg, backup_path) ==
    <<"pg_restore", "-h", cfg.host, "-p", Str(cfg.port), "-U", cfg.user,
      "-d", cfg.name, "-c", "--verbose", backup_path>>

\* env = os.environ.copy(); env["PGPASSWORD"] = password
ChildEnv(cfg, environ) ==
    {p \in environ : p[1] # "PGPASSWORD"} \cup {<<"PGPASSWORD", cfg.password>>}

\* process = await create_subprocess_exec(*cmd, env=env, stdout=PIPE,
\* stderr=PIPE); stdout, stderr = await process.communicate(); then
\* process.returncode is read.  communicate() returns once both pipes are
\* read to their end and the child has exited; a cancellation of the awaiting
\* task leaves it at once, with the child still running.
SpawnAndCommunicate(child) ==
    IF child.spawn # "ok"
    THEN [spawned |-> 0, child |-> "none", log |-> <<"create_subprocess_exec!">>,
          returncode |-> -1, stderr |-> "", exc |-> child.spawn]
    ELSE IF child.wait # "exit"
    THEN [spawned |-> 1, child |-> "running",
          log |-> <<"create_subprocess_exec", "communicate^">>,
          returncode |-> -1, stderr |-> "", exc |-> child.wait]
    ELSE [spawned |-> 1, child |-> "exited",
          log |-> <<"create_subprocess_exec", "communicate", "returncode">>,
          returncode |-> child.returncode, stderr |-> child.stderr,
          exc |-> "none"]

\* The outcome after the child: an exception of the spawn or the wait
\* propagates; a non-zero exit code raises Exception(prefix + stderr); exit
\* code 0 returns value.
AfterChild(base, p, prefix, value) ==
    LET seen == [base EXCEPT !.spawned = p.spawned, !.child = p.child,
                             !.log = p.log, !.returncode = p.returncode,
                             !.stderr = p.stderr]
    IN IF p.exc # "none"
       THEN [seen EXCEPT !.error = [type |-> p.exc, message |-> ""]]
       ELSE IF p.returncode # 0
       THEN [seen EXCEPT !.error = [type |-> "Exception",
                                    message |-> prefix \o p.stderr]]
       ELSE [seen EXCEPT !.returned = TRUE, !.value = value]

\* backup_database returning the path whatever the exit code.
backup_database_unchecked(cfg, environ, backup_path, now, child) ==
    LET filename == "connectifyvpn_backup_" \o now \o ".sql"
        filepath == backup_path \o "/" \o filename
        base == [NoProc EXCEPT !.op = "backup_database", !.cfg = cfg,
                               !.environ = environ, !.backup_path = backup_path,
                               !.now = now, !.argv = PgDumpCmd(cfg, filepath),
                               !.env = ChildEnv(cfg, environ)]
        p == SpawnAndCommunicate(child)
    IN IF p.exc = "none"
       THEN [AfterChild(base, p, "Backup failed: ", filepath)
                EXCEPT !.returned = TRUE, !.value = filepath, !.error = NoError]
       ELSE AfterChild(base, p, "Backup failed: ", filepath)

\* filepath = Path(backup_path) / filename; pg_dump -f filepath.
backup_database(cfg, environ, backup_path, now, child) ==
    LET filename == "connectifyvpn_backup_" \o now \o ".sql"
        filepath == backup_path \o "/" \o filename
        base == [NoProc EXCEPT !.op = "backup_database", !.cfg = cfg,
                               !.environ = environ, !.backup_path = backup_path,
                               !.now = now, !.argv = PgDumpCmd(cfg, filepath),
                               !.env = ChildEnv(cfg, environ)]
    IN AfterChild(base, SpawnAndCommunicate(child), "Backup failed: ", filepath)

\* pg_restore -c backup_path; the path is not looked at before the spawn.
restore_database(cfg, environ, backup_path, child) ==
    LET base == [NoProc EXCEPT !.op = "restore_database", !.cfg = cfg,
                               !.environ = environ, !.backup_path = backup_path,
                               !.argv = PgRestoreCmd(cfg, backup_path),
                               !.env = ChildEnv(cfg, environ)]
    IN AfterChild(base, SpawnAndCommunicate(child), "Restore failed: ", "True")

\* pg_dump and pg_restore exit non-zero when the database cannot be reached
\* or the input file does not exist.
ToolRuns(canSucceed) ==
    {c \in ChildRuns : (c.spawn = "ok" /\ c.wait = "exit" /\ ~canSucceed)
                          => c.returncode # 0}

\* What a restored artifact may hold.
Artifacts == {[plans |-> n, inactive |-> 0, servers |-> n] : n \in 0..MaxPre}

BackupDatabase ==
    /\ ~cli.ran
    /\ \E cfg \in DatabaseConfigs, environ \in Environs, backup_path \in Paths,
          now \in Timestamps, child \in ToolRuns(pgUp) :
        proc' = backup_database(cfg, environ, backup_path, now, child)
    /\ UNCHANGED <<supervisor, pgUp, redisUp, store, ret, cli, pool, files, trip, indexes, settings>>

RestoreDatabase ==
    /\ ~cli.ran
    /\ \E cfg \in DatabaseConfigs, environ \in Environs, backup_path \in Paths,
          exists \in BOOLEAN :
        \E child \in ToolRuns(pgUp /\ exists) :
            /\ proc' = [restore_database(cfg, environ, backup_path, child)
                           EXCEPT !.exists = exists]
            /\ \E restored \in (IF child.spawn = "ok" /\ child.wait = "exit"
                                    /\ child.returncode = 0
                                 THEN Artifacts ELSE {store}) :
                  store' = restored
    /\ UNCHANGED <<supervisor, pgUp, redisUp, ret, cli, pool, files, trip, indexes, settings>>

\* ---------------------------------------------------- scripts/migrate.py

Commands ==
    {"check", "create", "drop", "seed", "indexes", "migrate", "stats",
     "backup", "restore"}

\* sys.argv: argv[1] is the script, argv[2] the command, argv[3] the path.
Argvs ==
    {<<"migrate.py">>}
    \cup {<<"migrate.py", c>> : c \in Commands \cup {"bogus"}}
    \cup {<<"migrate.py", c, p>> : c \in {"backup", "restore"}, p \in Paths}

\* What the operator types at the prompt, character by character.
Answers ==
    {<<"y", "e", "s">>, <<"Y", "E", "S">>, <<"Y", "e", "s">>, <<"y">>,
     <<"n", "o">>, <<"y", "e", "s", " ">>}

\* str.lower() on the letters that occur
LowerChar(ch) ==
    CASE ch = "Y" -> "y" [] ch = "E" -> "e" [] ch = "S" -> "s"
      [] ch = "N" -> "n" [] ch = "O" -> "o" [] OTHER -> ch

Lower(answer) == [i \in 1..Len(answer) |-> LowerChar(answer[i])]

\* A gate that lets any answer starting with y through.
Confirmed_initial(answer) == Len(answer) > 0 /\ LowerChar(answer[1]) = "y"

\* confirm.lower() == 'yes'
Confirmed(answer) == Lower(answer) = <<"y", "e", "s">>

\* One method of MigrationManager as main() sees it: the calls it made, whether
\* an exception left it, the code of a sys.exit (-1: none), what became of the
\* requested operation, the store and the child process it leaves behind.
Step(calls, raised, sysexit, outcome, st, pr) ==
    [calls |-> calls, raised |-> raised, sysexit |-> sysexit,
     outcome |-> outcome, store |-> st, proc |-> pr]

Fate(raised) == IF raised THEN "failed" ELSE "succeeded"

EmptyStore == [plans |-> 0, inactive |-> 0, servers |-> 0]

\* A call that either returns or lets its exception through.
Plain(call, raised, st) == Step(<<call>>, raised, -1, Fate(raised), st, NoProc)

\* check_connection with any() in place of all()
check_connection_any(health) == \E p \in health : p[2]

\* return all(health.values())
check_connection(health) == \A p \in health : p[2]

\* DatabaseManager.create_tables: Base.metadata.create_all in one transaction
create_tables(pg, st) == Step(<<"create_tables">>, pg # "ok", -1, Fate(pg # "ok"), st, NoProc)

\* DatabaseManager.drop_tables: Base.metadata.drop_all in one transaction
drop_tables(pg, st) ==
    Step(<<"drop_tables">>, pg # "ok", -1, Fate(pg # "ok"),
         IF pg = "ok" THEN EmptyStore ELSE st, NoProc)

\* MigrationManager.drop_tables: the prompt, then the drop on "yes".
Migration_drop_tables(answer, pg, st) ==
    IF Confirmed(answer)
    THEN LET d == drop_tables(pg, st)
         IN [d EXCEPT !.calls = <<"input">> \o @]
    ELSE Step(<<"input">>, FALSE, -1, "declined", st, NoProc)

\* The statements of create_indexes, in the order of the list.
IndexStatements ==
    <<[name |-> "idx_users_telegram_id", on |-> "users(telegram_id)"],
      [name |-> "idx_users_email", on |-> "users(email)"],
      [name |-> "idx_users_status", on |-> "users(status)"],
      [name |-> "idx_accounts_user_id", on |-> "accounts(user_id)"],
      [name |-> "idx_accounts_server_id", on |-> "accounts(server_id)"],
      [name |-> "idx_accounts_status", on |-> "accounts(status)"],
      [name |-> "idx_accounts_expires_at", on |-> "accounts(expires_at)"],
      [name |-> "idx_accounts_user_status", on |-> "accounts(user_id, status)"],
      [name |-> "idx_orders_user_id", on |-> "orders(user_id)"],
      [name |-> "idx_orders_status", on |-> "orders(status)"],
      [name |-> "idx_orders_created_at", on |-> "orders(created_at)"],
      [name |-> "idx_orders_user_status", on |-> "orders(user_id, status)"],
      [name |-> "idx_vpn_sessions_account_id", on |-> "vpn_sessions(account_id)"],
      [name |-> "idx_vpn_sessions_is_active", on |-> "vpn_sessions(is_active)"],
      [name |-> "idx_vpn_sessions_created_at", on |-> "vpn_sessions(created_at)"],
      [name |-> "idx_tickets_user_id", on |-> "tickets(user_id)"],
      [name |-> "idx_tickets_status", on |-> "tickets(status)"],
      [name |-> "idx_tickets_created_at", on |-> "tickets(created_at)"],
      [name |-> "idx_audit_logs_user_id", on |-> "audit_logs(user_id)"],
      [name |-> "idx_audit_logs_event_type", on |-> "audit_logs(event_type)"],
      [name |-> "idx_audit_logs_created_at", on |-> "audit_logs(created_at)"]>>

\* CREATE INDEX IF NOT EXISTS <name> ON <table>(<columns>): skipped when an
\* index of that name exists, whatever it is on.
CreateIndexIfNotExists(catalog, stmt) ==
    IF \E x \in catalog : x.name = stmt.name THEN catalog
    ELSE catalog \cup {stmt}

\* for index_sql in indexes: await conn.execute(text(index_sql)), where
\* statement fault_at raises (0: none does).
RECURSIVE ExecuteAll(_, _, _, _)
ExecuteAll(stmts, i, fault_at, catalog) ==
    IF i > Len(stmts) THEN [raised |-> FALSE, catalog |-> catalog]
    ELSE IF i = fault_at THEN [raised |-> TRUE, catalog |-> catalog]
    ELSE ExecuteAll(stmts, i + 1, fault_at,
                    CreateIndexIfNotExists(catalog, stmts[i]))

\* The batch on a connection that commits each statement as it is run.
IndexBatch_autocommit(stmts, fault_at, catalog) ==
    LET r == ExecuteAll(stmts, 1, fault_at, catalog)
    IN [raised |-> r.raised, indexes |-> r.catalog]

\* async with self.db.engine.begin() as conn: the statements run in one
\* transaction, committed when the block ends and rolled back when a
\* statement raises.
IndexBatch(stmts, fault_at, catalog) ==
    LET r == ExecuteAll(stmts, 1, fault_at, catalog)
    IN [raised |-> r.raised,
        indexes |-> IF r.raised THEN catalog ELSE r.catalog]

\* create_indexes as main() sees it.
create_indexes(pg, st) ==
    Plain("create_indexes",
          IndexBatch(IndexStatements, IF pg = "ok" THEN 0 ELSE 1, {}).raised, st)

\* The list in another order.
Reverse(seq) == [i \in 1..Len(seq) |-> seq[Len(seq) + 1 - i]]

Rotate(seq) == [i \in 1..Len(seq) |-> seq[(i % Len(seq)) + 1]]

Orders == {IndexStatements, Reverse(IndexStatements), Rotate(IndexStatements)}

\* create_indexes on the manager: self.db.engine is None before
\* initialize(); a statement may fail on its own while the backend is up.
CreateIndexes ==
    /\ \E pg \in EngineCall(engine, pool_disposals, pgUp), stmts \in Orders,
          fault_at \in 0..Len(IndexStatements) :
        /\ pg # "ok" => fault_at = 1
        /\ indexes' = IndexBatch(stmts, fault_at, indexes).indexes
        /\ ret' = [NoRet EXCEPT !.op = "create_indexes",
                                !.raised = IndexBatch(stmts, fault_at, indexes).raised,
                                !.batch = [stmts |-> stmts, fault_at |-> fault_at,
                                           before |-> indexes]]
    /\ UNCHANGED <<supervisor, pgUp, redisUp, store, proc, cli, pool,
                   files, trip, settings>>

\* command.upgrade(alembic_cfg, "head")
migrate(alembic, st) ==
    Step(<<"upgrade">>, alembic # "ok", -1, Fate(alembic # "ok"), st, NoProc)

\* MigrationManager.get_stats: db.get_stats() outside any try
Migration_get_stats(pg, rd, info, st) ==
    Plain("get_stats", get_stats(pg, rd, info).raised, st)

\* What main() sees of a seed run.
Seeded(r) == Plain("seed_database", r.seed.raised, r.sess.after)

\* backup(backup_path): a default path under /tmp when none is given; an
\* Exception of backup_database is printed and swallowed.
\* try: await ...; except Exception: print.  Only a cancellation gets through.
Swallowed(calls, r, st) ==
    Step(calls, r.error.type = "CancelledError", -1, Fate(~r.returned), st, r)

backup(argv, io, st) ==
    LET backup_path == IF Len(argv) > 2 THEN argv[3]
                       ELSE "/tmp/connectifyvpn_backup_" \o io.now \o ".dump"
    IN Swallowed(<<"backup_database">>,
                 backup_database(io.cfg, io.environ, backup_path, io.now, io.child),
                 st)

\* restore(backup_path): os.path.exists, then the prompt, then
\* restore_database inside try/except Exception.
restore(backup_path, io, st) ==
    IF ~io.exists
    THEN Step(<<"exists">>, FALSE, -1, "failed", st, NoProc)
    ELSE IF ~Confirmed(io.answer)
    THEN Step(<<"exists", "input">>, FALSE, -1, "declined", st, NoProc)
    ELSE Swallowed(<<"exists", "input", "restore_database">>,
                   [restore_database(io.cfg, io.environ, backup_path, io.child)
                       EXCEPT !.exists = TRUE],
                   IF io.child.returncode = 0 /\ io.child.spawn = "ok"
                   THEN io.restored ELSE st)

FreshSupervisor ==
    [engine |-> 0, session_factory |-> 0, redis_client |-> 0,
     engines_created |-> 0, clients_created |-> 0]

NoCalls == [e \in 1..MaxInit |-> 0]

NoCli ==
    [ran |-> FALSE, argv |-> <<>>, answer |-> <<>>, exists |-> FALSE,
     up |-> [init |-> FALSE, command |-> FALSE], calls |-> <<>>,
     exit_code |-> -1, outcome |-> "none"]

\* The branch of main() for one command, on an initialized manager.
Dispatch(argv, sup, io, st) ==
    LET command == argv[2]
    IN CASE command = "check" ->
              LET ok == check_connection(health_check(io.pg, io.rd).health)
              IN Step(<<"health_check">>, FALSE, IF ok THEN 0 ELSE 1,
                      Fate(~ok), st, NoProc)
         [] command = "create" -> create_tables(io.pg, st)
         [] command = "drop" -> Migration_drop_tables(io.answer, io.pg, st)
         [] command = "seed" ->
              Seeded(seed_database(sup.session_factory, st, io.seed_fault,
                                   io.rollback))
         [] command = "indexes" -> create_indexes(io.pg, st)
         [] command = "migrate" -> migrate(io.alembic, st)
         [] command = "stats" -> Migration_get_stats(io.pg, io.rd, io.info, st)
         [] command = "backup" -> backup(argv, io, st)
         [] command = "restore" ->
              IF Len(argv) < 3 THEN Step(<<>>, FALSE, 1, "usage", st, NoProc)
              ELSE restore(argv[3], io, st)
         [] OTHER -> Step(<<>>, FALSE, 1, "usage", st, NoProc)

\* main() with cleanup() after the try block in place of the finally clause
Finish_no_finally(argv, io, init, body) ==
    [cli |-> [ran |-> TRUE, argv |-> argv,
              answer |-> IF \E i \in 1..Len(body.calls) : body.calls[i] = "input"
                         THEN io.answer ELSE <<>>,
              exists |-> io.exists,
              up |-> [init |-> io.pgOk /\ io.rdOk,
                      command |-> io.pg = "ok" /\ io.rd = "ok"],
              calls |-> <<"initialize">> \o body.calls \o
                        (IF body.raised \/ body.sysexit # -1 THEN <<>>
                         ELSE <<"close">>),
              exit_code |-> IF body.sysexit # -1 THEN body.sysexit
                            ELSE IF body.raised THEN 1 ELSE 0,
              outcome |-> body.outcome],
     sup |-> init.sup,
     released |-> IF body.raised \/ body.sysexit # -1
                  THEN close(0, 0, NoCalls, NoCalls)
                  ELSE close(init.sup.engine, init.sup.redis_client, NoCalls, NoCalls),
     close_calls |-> IF body.raised \/ body.sysexit # -1 THEN 0 ELSE 1,
     store |-> body.store, proc |-> body.proc]

\* The end of a run that got as far as constructing the manager: cleanup()
\* in finally, then the exit code: the argument of sys.exit where one was
\* reached, 1 when an exception leaves main(), 0 when main() returns.
Finish(argv, io, init, body) ==
    [cli |-> [ran |-> TRUE, argv |-> argv,
              answer |-> IF \E i \in 1..Len(body.calls) : body.calls[i] = "input"
                         THEN io.answer ELSE <<>>,
              exists |-> io.exists,
              up |-> [init |-> io.pgOk /\ io.rdOk,
                      command |-> io.pg = "ok" /\ io.rd = "ok"],
              calls |-> <<"initialize">> \o body.calls \o <<"close">>,
              exit_code |-> IF body.sysexit # -1 THEN body.sysexit
                            ELSE IF body.raised THEN 1 ELSE 0,
              outcome |-> body.outcome],
     sup |-> init.sup,
     released |-> close(init.sup.engine, init.sup.redis_client, NoCalls, NoCalls),
     close_calls |-> 1, store |-> body.store, proc |-> body.proc]

\* try: await manager.initialize(); <command>
Guarded(argv, io, st, init) ==
    Finish(argv, io, init,
           IF init.raised THEN Step(<<>>, TRUE, -1, "failed", st, NoProc)
           ELSE Dispatch(argv, init.sup, io, st))

\* main(): usage and exit 1 without a command; otherwise a new manager,
\* initialize() and the command inside try, cleanup() in finally.
main(argv, io, st) ==
    IF Len(argv) < 2
    THEN [cli |-> [NoCli EXCEPT !.ran = TRUE, !.argv = argv, !.exit_code = 1,
                                !.outcome = "usage"],
          sup |-> FreshSupervisor, released |-> close(0, 0, NoCalls, NoCalls),
          close_calls |-> 0, store |-> st, proc |-> NoProc]
    ELSE Guarded(argv, io, st, initialize(FreshSupervisor, io.pgOk, io.rdOk))

\* What one run of the script meets: the backends at initialize() (pgOk, rdOk)
\* and at the command (pg, rd), the answer typed, whether the path exists, the
\* settings, the child process, the faults of a seed run, alembic's outcome,
\* the content of the artifact restored.
RunInputs(argv, pgNow, rdNow) ==
    LET command == IF Len(argv) >= 2 THEN argv[2] ELSE ""
        both == pgNow /\ rdNow
    IN {io \in
          [pgOk : {pgNow}, rdOk : {rdNow},
           pg : IF both THEN {"ok", "fault"} ELSE {"fault"},
           rd : IF both THEN {"ok", "fault"} ELSE {"fault"},
           answer : IF command \in {"drop", "restore"} THEN Answers ELSE {<<>>},
           exists : IF command = "restore" THEN BOOLEAN ELSE {FALSE},
           cfg : {c \in DatabaseConfigs : c.password = "s3cret"},
           environ : {{<<"PATH", "/usr/bin">>}},
           now : Timestamps,
           child : IF command \in {"backup", "restore"}
                   THEN {c \in ChildRuns : c.wait = "exit"}
                   ELSE {c \in ChildRuns : c.spawn = "OSError"},
           seed_fault : IF command = "seed" THEN SeedFaults ELSE {<<"none", 0>>},
           rollback : IF command = "seed" THEN {"ok", "Exception"} ELSE {"ok"},
           alembic : IF command = "migrate" THEN {"ok", "Exception"} ELSE {"ok"},
           info : {CacheInfoKeys},
           restored : IF command = "restore" THEN Artifacts ELSE {EmptyStore}] :
          /\ io.child \in ToolRuns(io.pg = "ok" /\ (command = "restore" => io.exists))
          /\ (command = "seed" /\ io.pg # "ok") => io.seed_fault = <<"plan_count", 0>>
          /\ (command = "migrate" /\ io.pg # "ok") => io.alembic # "ok"}

\* The process has exited: its manager, the store and the backends as the
\* run left them.
Exited(r, pgThen, rdThen) ==
    /\ cli' = r.cli
    /\ proc' = r.proc
    /\ store' = r.store
    /\ engine' = r.sup.engine
    /\ session_factory' = r.sup.session_factory
    /\ redis_client' = r.sup.redis_client
    /\ engines_created' = r.sup.engines_created
    /\ clients_created' = r.sup.clients_created
    /\ pool_disposals' = r.released.pool_disposals
    /\ client_closes' = r.released.client_closes
    /\ close_calls' = r.close_calls
    /\ pgUp' = pgThen
    /\ redisUp' = rdThen

\* One run of scripts/migrate.py, from main() to the exit of the process.
Main ==
    /\ ~cli.ran
    /\ proc.op = "none"
    /\ \E argv \in Argvs :
        \E io \in RunInputs(argv, pgUp, redisUp) :
            Exited(main(argv, io, store),
                   IF Len(argv) >= 2 /\ pgUp /\ redisUp THEN io.pg = "ok" ELSE pgUp,
                   IF Len(argv) >= 2 /\ pgUp /\ redisUp THEN io.rd = "ok" ELSE redisUp)
    /\ UNCHANGED <<ret, pool, files, trip, indexes, settings>>

\* --------------------------------------------------------- connection pool

\* Concurrent get_session callers.
Callers == 1..NCallers

NoPool ==
    [created |-> FALSE, pool_size |-> 0, max_overflow |-> 0,
     at |-> [c \in Callers |-> "idle"]]

\* An engine whose pool hands out one connection more than configured.
PoolLimit_extra(p) == p.pool_size + p.max_overflow + 1

\* create_async_engine(pool_size=..., max_overflow=...): the connections the
\* pool lends at one time.
PoolLimit(p) == p.pool_size + p.max_overflow

CheckedOut(p) == Cardinality({c \in Callers : p.at[c] = "holding"})

\* _init_postgres builds the engine with the configured pool_size and
\* max_overflow (DB_POOL_SIZE, DB_MAX_OVERFLOW; positive size, no negative
\* overflow).
CreateEngine ==
    /\ ~pool.created
    /\ \E size \in 1..MaxPoolSize, overflow \in 0..MaxOverflow :
        pool' = [pool EXCEPT !.created = TRUE, !.pool_size = size,
                             !.max_overflow = overflow]
    /\ UNCHANGED <<supervisor, pgUp, redisUp, store, ret, proc, cli, files, trip, indexes, settings>>

\* A caller inside get_session issues its first statement: the session takes
\* a connection from the pool, or waits for one when all are lent.
SessionAcquire(c) ==
    /\ pool.created
    /\ pool.at[c] = "idle"
    /\ pool' = [pool EXCEPT !.at[c] = IF CheckedOut(pool) < PoolLimit(pool)
                                       THEN "holding" ELSE "waiting"]
    /\ UNCHANGED <<supervisor, pgUp, redisUp, store, ret, proc, cli, files, trip, indexes, settings>>

\* A waiting caller is handed a connection that came back.
SessionServed(c) ==
    /\ pool.at[c] = "waiting"
    /\ CheckedOut(pool) < PoolLimit(pool)
    /\ pool' = [pool EXCEPT !.at[c] = "holding"]
    /\ UNCHANGED <<supervisor, pgUp, redisUp, store, ret, proc, cli, files, trip, indexes, settings>>

\* The pool's wait limit runs out: the acquisition raises in the caller.
SessionTimeout(c) ==
    /\ pool.at[c] = "waiting"
    /\ pool' = [pool EXCEPT !.at[c] = "failed"]
    /\ UNCHANGED <<supervisor, pgUp, redisUp, store, ret, proc, cli, files, trip, indexes, settings>>

\* The block ends; "async with self.session_factory()" closes the session and
\* its connection goes back to the pool.
SessionRelease(c) ==
    /\ pool.at[c] = "holding"
    /\ pool' = [pool EXCEPT !.at[c] = "closed"]
    /\ UNCHANGED <<supervisor, pgUp, redisUp, store, ret, proc, cli, files, trip, indexes, settings>>

\* A caller that is through comes back for another session.
SessionAgain(c) ==
    /\ pool.at[c] \in {"closed", "failed"}
    /\ pool' = [pool EXCEPT !.at[c] = "idle"]
    /\ UNCHANGED <<supervisor, pgUp, redisUp, store, ret, proc, cli, files, trip, indexes, settings>>

\* -------------------------------------------------------------- round trip

\* The child processes, by what their arguments tell them.  pg_dump writes
\* the rows and indexes of the store to the file named after -f, as an
\* archive under --format=custom and as a plain SQL script otherwise.
HasArg(argv, a) == \E i \in 1..Len(argv) : argv[i] = a

ArgAfter(argv, flag) ==
    argv[(CHOOSE i \in 1..(Len(argv) - 1) : argv[i] = flag) + 1]

pg_dump(argv, st, idx) ==
    [path |-> ArgAfter(argv, "-f"),
     format |-> IF HasArg(argv, "--format=custom") THEN "custom" ELSE "plain",
     rows |-> st, indexes |-> idx]

WriteFile(fs, f) == {g \in fs : g.path # f.path} \cup {f}

\* pg_restore reads the archive named by its last argument; it cannot read
\* a plain SQL script.
Readable(fs, argv) ==
    \E f \in fs : f.path = argv[Len(argv)] /\ f.format = "custom"

Archive(fs, argv) == CHOOSE f \in fs : f.path = argv[Len(argv)]

\* With -c the objects of the archive are dropped and created again before
\* their rows are loaded; without it the rows join those in place.
pg_restore(argv, f, st) ==
    IF HasArg(argv, "-c") THEN f.rows
    ELSE [plans |-> st.plans + f.rows.plans,
          inactive |-> st.inactive + f.rows.inactive,
          servers |-> st.servers + f.rows.servers]

Exit0(r) == r.child = "exited" /\ r.returncode = 0

\* A caller's script: path = backup_database(dir); drop_tables();
\* create_tables(); restore_database(path).  An exception ends it.
NoTrip ==
    [pc |-> "start", before |-> EmptyStore, artifact |-> "",
     failed_at |-> "none", readable |-> FALSE]

TripConfig == CHOOSE c \in DatabaseConfigs : c.password = "s3cret"

TripEnviron == {<<"PATH", "/usr/bin">>}

Failed(at) == [trip EXCEPT !.pc = "failed", !.failed_at = at]

BackedUp(r) ==
    /\ proc' = r
    /\ files' = IF Exit0(r) THEN WriteFile(files, pg_dump(r.argv, store, indexes))
                ELSE files
    /\ trip' = IF r.returned
               THEN [trip EXCEPT !.pc = "backed_up", !.before = store,
                                 !.artifact = r.value]
               ELSE Failed("backup")
    /\ ret' = [NoRet EXCEPT !.op = "backup_database", !.raised = ~r.returned]

TripBackup ==
    /\ trip.pc = "start"
    /\ \E backup_path \in Paths, now \in Timestamps, child \in ToolRuns(pgUp) :
        BackedUp(backup_database(TripConfig, TripEnviron, backup_path, now, child))
    /\ UNCHANGED <<supervisor, pgUp, redisUp, store, cli, pool, indexes, settings>>

TripDrop ==
    /\ trip.pc = "backed_up"
    /\ \E pg \in EngineCall(engine, pool_disposals, pgUp) :
        /\ store' = drop_tables(pg, store).store
        /\ indexes' = IF pg = "ok" THEN {} ELSE indexes
        /\ trip' = IF pg = "ok" THEN [trip EXCEPT !.pc = "dropped"]
                   ELSE Failed("drop")
        /\ ret' = [NoRet EXCEPT !.op = "drop_tables",
                                !.raised = drop_tables(pg, store).raised]
    /\ UNCHANGED <<supervisor, pgUp, redisUp, proc, cli, pool, files, settings>>

TripCreate ==
    /\ trip.pc = "dropped"
    /\ \E pg \in EngineCall(engine, pool_disposals, pgUp) :
        /\ store' = create_tables(pg, store).store
        /\ trip' = IF pg = "ok" THEN [trip EXCEPT !.pc = "created"]
                   ELSE Failed("create")
        /\ ret' = [NoRet EXCEPT !.op = "create_tables",
                                !.raised = create_tables(pg, store).raised]
    /\ UNCHANGED <<supervisor, pgUp, redisUp, proc, cli, pool, files, indexes,
                   settings>>

Restored(r, child) ==
    /\ child \in ToolRuns(pgUp /\ Readable(files, r.argv))
    /\ proc' = [r EXCEPT !.exists = \E f \in files : f.path = r.argv[Len(r.argv)]]
    /\ store' = IF Exit0(r) THEN pg_restore(r.argv, Archive(files, r.argv), store)
                ELSE store
    /\ indexes' = IF Exit0(r) /\ HasArg(r.argv, "-c")
                  THEN Archive(files, r.argv).indexes
                  ELSE indexes
    /\ trip' = IF r.returned
               THEN [trip EXCEPT !.pc = "restored", !.readable = TRUE]
               ELSE [Failed("restore") EXCEPT
                        !.readable = Readable(files, r.argv)]
    /\ ret' = [NoRet EXCEPT !.op = "restore_database", !.raised = ~r.returned]

TripRestore ==
    /\ trip.pc = "created"
    /\ \E child \in ChildRuns :
        Restored(restore_database(TripConfig, TripEnviron, trip.artifact, child),
                 child)
    /\ UNCHANGED <<supervisor, pgUp, redisUp, cli, pool, files, settings>>

\* ---------------------------------------------------------------- Settings

\* The five variables validate() requires, in the order it checks them.
RequiredVars ==
    <<"BOT_TOKEN", "TOYYIBPAY_USER_SECRET_KEY", "TOYYIBPAY_CATEGORY_CODE",
      "JWT_SECRET", "DB_PASSWORD">>

\* os.environ after load_dotenv, as a set of (name, value) pairs: each
\* required variable unset, set to the empty string or set to a value.
SettingsEnvirons ==
    {{<<RequiredVars[i], val[i]>> : i \in {j \in 1..Len(RequiredVars) : val[j] # "unset"}} :
        val \in [1..Len(RequiredVars) -> {"unset", "", "v"}]}

\* os.getenv(name, default)
getenv(environ, name, default) ==
    IF \E p \in environ : p[1] = name
    THEN (CHOOSE p \in environ : p[1] = name)[2]
    ELSE default

\* ', '.join(errors)
RECURSIVE Join(_, _)
Join(strs, sep) ==
    IF strs = <<>> THEN ""
    ELSE IF Len(strs) = 1 THEN strs[1]
    ELSE strs[1] \o sep \o Join(Tail(strs), sep)

NoSettings ==
    [built |-> FALSE, environ |-> {}, bot_token |-> "",
     toyyibpay_secret_key |-> "", toyyibpay_category_code |-> "",
     jwt_secret |-> "", password |-> "",
     raised |-> FALSE, errors |-> <<>>, error |-> NoError]

\* validate() that raises on the first missing value.
validate_first(s) ==
    LET Need(value, name) == IF value = "" THEN <<name \o " is required">> ELSE <<>>
        all == Need(s.bot_token, "BOT_TOKEN")
               \o Need(s.toyyibpay_secret_key, "TOYYIBPAY_USER_SECRET_KEY")
               \o Need(s.toyyibpay_category_code, "TOYYIBPAY_CATEGORY_CODE")
               \o Need(s.jwt_secret, "JWT_SECRET")
               \o Need(s.password, "DB_PASSWORD")
        errors == IF all = <<>> THEN <<>> ELSE <<all[1]>>
    IN IF errors # <<>>
       THEN [s EXCEPT !.raised = TRUE, !.errors = errors,
                      !.error = [type |-> "ValueError",
                                 message |-> "Configuration errors: "
                                             \o Join(errors, ", ")]]
       ELSE s

\* validate(): one "<NAME> is required" per value that is falsy, then one
\* ValueError carrying them all.
validate(s) ==
    LET Need(value, name) == IF value = "" THEN <<name \o " is required">> ELSE <<>>
        errors == Need(s.bot_token, "BOT_TOKEN")
                  \o Need(s.toyyibpay_secret_key, "TOYYIBPAY_USER_SECRET_KEY")
                  \o Need(s.toyyibpay_category_code, "TOYYIBPAY_CATEGORY_CODE")
                  \o Need(s.jwt_secret, "JWT_SECRET")
                  \o Need(s.password, "DB_PASSWORD")
    IN IF errors # <<>>
       THEN [s EXCEPT !.raised = TRUE, !.errors = errors,
                      !.error = [type |-> "ValueError",
                                 message |-> "Configuration errors: "
                                             \o Join(errors, ", ")]]
       ELSE s

\* Settings.__init__: the _init_* methods read the environment with ""
\* as the default of each required value, then validate().  The numeric
\* variables (int(os.getenv(...))) are taken as well formed.
Settings_init(environ) ==
    validate([NoSettings EXCEPT
                !.built = TRUE, !.environ = environ,
                !.password = getenv(environ, "DB_PASSWORD", ""),
                !.bot_token = getenv(environ, "BOT_TOKEN", ""),
                !.toyyibpay_secret_key = getenv(environ, "TOYYIBPAY_USER_SECRET_KEY", ""),
                !.toyyibpay_category_code = getenv(environ, "TOYYIBPAY_CATEGORY_CODE", ""),
                !.jwt_secret = getenv(environ, "JWT_SECRET", "")])

NewSettings ==
    /\ \E environ \in SettingsEnvirons : settings' = Settings_init(environ)
    /\ UNCHANGED <<supervisor, pgUp, redisUp, store, ret, proc, cli, pool,
                   files, trip, indexes>>

\* ------------------------------------------------------------- environment

BackendChange ==
    /\ \E p, r \in BOOLEAN :
        /\ <<p, r>> # <<pgUp, redisUp>>
        /\ pgUp' = p
        /\ redisUp' = r
    /\ UNCHANGED <<supervisor, store, ret, proc, cli, pool, files, trip, indexes, settings>>

\* ------------------------------------------------------------------- spec

StoreStates == [plans : 0..MaxPre, inactive : 0..1, servers : 0..MaxPre]

Init ==
    /\ engine = 0
    /\ session_factory = 0
    /\ redis_client = 0
    /\ engines_created = 0
    /\ clients_created = 0
    /\ pool_disposals = [e \in 1..MaxInit |-> 0]
    /\ client_closes = [c \in 1..MaxInit |-> 0]
    /\ close_calls = 0
    /\ pgUp \in BOOLEAN
    /\ redisUp \in BOOLEAN
    /\ store \in StoreStates
    /\ ret = NoRet
    /\ proc = NoProc
    /\ cli = NoCli
    /\ pool = NoPool
    /\ files = {}
    /\ trip = NoTrip
    /\ indexes = {}
    /\ settings = NoSettings

\* The supervisor's lifecycle: initialize, health_check, get_stats, close.
Next ==
    \/ BackendChange
    \/ Initialize
    \/ HealthCheck
    \/ GetStats
    \/ Close

Spec == Init /\ [][Next]_vars

\* Scoped sessions and seeding on a supervisor that is initialized at some
\* point, with the backends coming and going.
SeedNext ==
    \/ BackendChange
    \/ Initialize
    \/ ScopedSession
    \/ SeedDatabase

SeedSpec == Init /\ [][SeedNext]_vars

\* Backup and restore called on the manager, and one run of the script.
CliNext ==
    \/ BackupDatabase
    \/ RestoreDatabase
    \/ Main

CliSpec == Init /\ [][CliNext]_vars

\* Callers sharing the pool of one engine, the relational backend reachable.
\* A caller that waits is timed out unless it is served first.
PoolNext ==
    \/ CreateEngine
    \/ \E c \in Callers : SessionAcquire(c)
    \/ \E c \in Callers : SessionServed(c)
    \/ \E c \in Callers : SessionTimeout(c)
    \/ \E c \in Callers : SessionRelease(c)
    \/ \E c \in Callers : SessionAgain(c)

PoolInit == Init /\ pgUp /\ redisUp /\ store = EmptyStore

PoolSpec ==
    /\ PoolInit
    /\ [][PoolNext]_vars
    /\ \A c \in Callers : WF_vars(SessionTimeout(c))

\* create_indexes run again and again on a supervisor, in any order of the
\* list and with any statement failing.
IndexInit == Init /\ store = EmptyStore

IndexNext ==
    \/ BackendChange
    \/ Initialize
    \/ CreateIndexes

IndexSpec == IndexInit /\ [][IndexNext]_vars

\* The round trip on a supervisor, from a store of any content.
TripNext ==
    \/ BackendChange
    \/ Initialize
    \/ TripBackup
    \/ TripDrop
    \/ TripCreate
    \/ TripRestore

TripSpec == Init /\ [][TripNext]_vars

\* Settings() constructed under every environment.
SettingsInit == Init /\ pgUp /\ redisUp /\ store = EmptyStore

SettingsSpec == SettingsInit /\ [][NewSettings]_vars

\* -------------------------------------------------------------- properties

Calls(log, name) ==
    Cardinality({i \in 1..Len(log) : log[i] \in {Mark(name, o) : o \in Outcomes}})

\* C1 as stated: per acquisition exactly one of commit and rollback is
\* performed, commit alone when the block ends normally and rollback alone
\* when it raises an exception, whatever the commit call itself does.
C1_ExactlyOneOfCommitRollback ==
    (ret.sess.entered /\ ret.sess.block_exc # "BaseException") =>
        /\ Calls(ret.sess.log, "commit") + Calls(ret.sess.log, "rollback") = 1
        /\ ret.sess.block_exc = "ok" => Calls(ret.sess.log, "rollback") = 0
        /\ ret.sess.block_exc # "ok" => Calls(ret.sess.log, "commit") = 0

\* C1 amended: get_session calls commit once exactly when the block ends
\* normally, and calls rollback once exactly when the block or that commit
\* raised an Exception; the caller sees an exception exactly when the block
\* or the commit raised, and where rollback is due it is called before the
\* exception reaches the caller.
C1_CommitThenRollbackOnFailure ==
    ret.sess.entered =>
        LET log == ret.sess.log
            caught == ret.sess.block_exc = "Exception"
                      \/ \E i \in 1..Len(log) : log[i] = "commit!"
            escaped == ret.sess.block_exc = "BaseException"
                       \/ \E i \in 1..Len(log) : log[i] = "commit^"
        IN /\ Calls(log, "commit") = (IF ret.sess.block_exc = "ok" THEN 1 ELSE 0)
           /\ Calls(log, "rollback") = (IF caught THEN 1 ELSE 0)
           /\ Raised(ret.sess) <=> (caught \/ escaped)
           /\ caught => \E i \in 1..Len(log) - 1 :
                            /\ log[i] \in {"rollback", "rollback!"}
                            /\ log[i + 1] = "raise"
           /\ ~Raised(ret.sess) => log[Len(log)] = "return"

\* A block that ended normally whose commit raised: both calls were made.
C1_Witness ==
    /\ ret.op = "session"
    /\ ret.sess.entered
    /\ ret.sess.block_exc = "ok"
    /\ ret.sess.log = <<"commit!", "rollback", "raise">>

\* C2: when an operation in the block raises, the store after the session
\* equals the store before it, the seed block included.
C2_SessionAtomicity ==
    (ret.sess.entered /\ ret.sess.block_exc # "ok") => ret.sess.after = ret.sess.before

\* C3: health_check never raises and returns a mapping holding both backend
\* keys with boolean values, in every state of the supervisor.
C3_HealthCheckNeverRaises ==
    ret.op = "health_check" =>
        /\ ~ret.raised
        /\ Keys(ret.health) = {"postgres", "redis"}
        /\ Cardinality(ret.health) = 2
        /\ \A p \in ret.health : p[2] \in BOOLEAN

\* health_check on a closed supervisor with both backends down.
C3_Witness ==
    /\ ret.op = "health_check"
    /\ close_calls > 0
    /\ engine # 0
    /\ ~pgUp
    /\ ~redisUp

\* Both resources assigned and neither released yet.
Initialized ==
    /\ engine # 0
    /\ redis_client # 0
    /\ pool_disposals[engine] = 0
    /\ client_closes[redis_client] = 0

\* C4: every health_check on an initialized supervisor returns exactly the
\* pair (relational reachable, cache reachable) of the time of the call,
\* whatever the other backend does and whatever earlier checks returned.
C4_HealthIsCurrentReachability ==
    [][(ret'.op = "health_check" /\ Initialized /\ UNCHANGED <<pgUp, redisUp>>)
        => ret'.health = {<<"postgres", pgUp>>, <<"redis", redisUp>>}]_vars

\* Relational up, cache down: {postgres: true, redis: false}.
C4_Witness ==
    /\ ret.op = "health_check"
    /\ Initialized
    /\ pgUp
    /\ ~redisUp
    /\ ret.health = {<<"postgres", TRUE>>, <<"redis", FALSE>>}

\* C5: get_stats never raises to its caller, whichever backends are at
\* fault; stated for the initialized supervisor, where only a backend fault
\* can make it raise.
C5_GetStatsNeverRaises == (ret.op = "get_stats" /\ Initialized) => ~ret.raised

StatsKeys ==
    {"postgres_size_bytes", "postgres_connections", "redis_memory",
     "redis_connected_clients", "redis_total_commands_processed"}

\* C6: whenever get_stats returns on an initialized supervisor, the mapping
\* holds the relational fields and every cache field, the cache call
\* failing or not.
C6_CacheFieldsAlwaysPresent ==
    (ret.op = "get_stats" /\ Initialized /\ ~ret.raised)
        => Keys(ret.stats) = StatsKeys

\* C7: a seed run that directly follows a completed seed run inserts no plan
\* row and no server row and leaves the store as the first run left it.
C7_SeedIdempotent ==
    (ret.op = "seed" /\ ret.prev.ran /\ ~ret.prev.raised) =>
        /\ ret.seed.plans_inserted = 0
        /\ ret.seed.servers_inserted = 0
        /\ ret.sess.after = ret.sess.before
        /\ store = ret.sess.before

\* A second run after a first run that inserted both batches.
C7_Witness ==
    /\ ret.op = "seed"
    /\ ~ret.raised
    /\ ret.prev.ran
    /\ ~ret.prev.raised
    /\ ret.prev.plans_inserted = PlanBatch
    /\ ret.prev.servers_inserted = ServerBatch

\* C8: a completed run on a store with active plans and no servers inserts
\* the server batch, and one on a store with servers and no active plans
\* inserts the plan batch.
C8_GroupsDoNotGateEachOther ==
    (ret.op = "seed" /\ ret.sess.entered /\ ~ret.raised) =>
        /\ (ret.sess.before.plans > 0 /\ ret.sess.before.servers = 0)
              => ret.seed.servers_inserted = ServerBatch
        /\ (ret.sess.before.plans = 0 /\ ret.sess.before.servers > 0)
              => ret.seed.plans_inserted = PlanBatch

C10_EachResourceReleasedOnce ==
    (engine # 0 /\ redis_client # 0) =>
        /\ pool_disposals[engine] <= 1
        /\ client_closes[redis_client] <= 1

\* C11: initialize() raises exactly when the relational probe or the cache
\* probe fails; a failing call disposes and resets nothing: when only the
\* cache is down the engine it has just built stays assigned and undisposed,
\* when the relational backend is down the cache client of an earlier call
\* stays as it was.
C11_InitializeFailsIffAProbeFails ==
    [][(engines_created' = engines_created + 1) =>
          /\ ret'.op = "initialize"
          /\ ret'.raised <=> ~(pgUp /\ redisUp)
          /\ pool_disposals' = pool_disposals
          /\ client_closes' = client_closes
          /\ (pgUp /\ ~redisUp) =>
                /\ engine' = engines_created' /\ session_factory' = engine'
                /\ pool_disposals'[engine'] = 0
          /\ ~pgUp =>
                /\ redis_client' = redis_client
                /\ clients_created' = clients_created]_vars

\* A failed initialize() with the relational backend up and the cache down:
\* the engine of that call is in place next to the client whose ping failed.
C11_Witness ==
    /\ ret.op = "initialize" /\ ret.raised
    /\ pgUp /\ ~redisUp
    /\ engine # 0 /\ engine = engines_created /\ pool_disposals[engine] = 0
    /\ redis_client # 0 /\ client_closes[redis_client] = 0

\* Pools and cache clients this supervisor created and has not released.
LivePools == {e \in 1..engines_created : pool_disposals[e] = 0}

LiveClients == {c \in 1..clients_created : client_closes[c] = 0}

\* C12: in every reachable state at most one pool and at most one cache
\* client created by the supervisor are live, and exactly one of each right
\* after an initialize() that returned, whatever the sequence of
\* initialize() and close() calls.
C12_AtMostOnePoolAndClientLive ==
    /\ Cardinality(LivePools) <= 1
    /\ Cardinality(LiveClients) <= 1
    /\ (ret.op = "initialize" /\ ~ret.raised) =>
          (Cardinality(LivePools) = 1 /\ Cardinality(LiveClients) = 1)

\* "yes" in any mix of upper and lower case, and nothing else.
CaseInsensitiveYes(answer) ==
    /\ Len(answer) = 3
    /\ answer[1] \in {"y", "Y"}
    /\ answer[2] \in {"e", "E"}
    /\ answer[3] \in {"s", "S"}

CliCommand == IF Len(cli.argv) >= 2 THEN cli.argv[2] ELSE ""

\* C13: a run of the script calls DatabaseManager.drop_tables or
\* restore_database only after the prompt and only when the answer typed is
\* "yes" up to case; on any other answer neither is called and a restore run
\* spawns no child process.
C13_DestructiveOnlyAfterYes ==
    cli.ran =>
      /\ \A i \in 1..Len(cli.calls) :
            cli.calls[i] \in {"drop_tables", "restore_database"} =>
              /\ CaseInsensitiveYes(cli.answer)
              /\ \E j \in 1..(i - 1) : cli.calls[j] = "input"
      /\ (CliCommand \in {"drop", "restore"} /\ ~CaseInsensitiveYes(cli.answer)) =>
            (proc.op = "none" /\ proc.spawned = 0)

\* A restore run answered "YES" that went on to restore_database, child spawned.
C13_Witness ==
    /\ cli.ran /\ CliCommand = "restore"
    /\ cli.answer = <<"Y", "E", "S">>
    /\ cli.calls = <<"initialize", "exists", "input", "restore_database", "close">>
    /\ proc.op = "restore_database" /\ proc.spawned = 1

\* C14: the script exits with 0 only when the requested operation succeeded
\* and with 1 when it failed or was not confirmed.
C14_ExitCodeTellsTheOutcome ==
    cli.ran =>
      /\ cli.exit_code \in {0, 1}
      /\ cli.exit_code = 0 => cli.outcome = "succeeded"
      /\ cli.outcome \in {"failed", "declined"} => cli.exit_code = 1

\* C15: "check" exits with 0 exactly when both backends were reachable, at
\* initialize() and at health_check() alike, and with 1 otherwise.
C15_CheckExitsZeroIffBothReachable ==
    (cli.ran /\ CliCommand = "check") =>
      cli.exit_code = (IF cli.up.init /\ cli.up.command THEN 0 ELSE 1)

\* A check run whose initialize() passed and whose health_check() found a
\* backend gone.
C15_Witness ==
    /\ cli.ran /\ CliCommand = "check"
    /\ cli.up.init /\ ~cli.up.command
    /\ cli.calls = <<"initialize", "health_check", "close">>
    /\ cli.exit_code = 1

\* C16: restore_database on a path that does not exist fails with an
\* artifact-not-found error and spawns no child process.
C16_MissingArtifactFailsBeforeSpawn ==
    (proc.op = "restore_database" /\ ~proc.exists) =>
      (proc.error.type = "ArtifactNotFoundError" /\ proc.spawned = 0)

\* C17: backup_database returns the artifact path, and restore_database
\* success, exactly when the child was awaited to its exit and the exit code
\* is 0; on a non-zero exit code the operation raises an error whose message
\* ends with what the child wrote to stderr, and returns nothing.
C17_ReturnsIffExitCodeZero ==
    proc.op # "none" =>
      /\ proc.returned <=> (proc.child = "exited" /\ proc.returncode = 0)
      /\ proc.returned =>
            /\ proc.error = NoError
            /\ proc.value = (IF proc.op = "backup_database" THEN proc.argv[11]
                             ELSE "True")
      /\ (proc.child = "exited" /\ proc.returncode # 0) =>
            /\ proc.error.type = "Exception"
            /\ proc.error.message =
                  (IF proc.op = "backup_database" THEN "Backup failed: "
                   ELSE "Restore failed: ") \o proc.stderr

\* A backup whose child exited with 0 after writing to stderr: the path returned.
C17_Witness ==
    /\ proc.op = "backup_database"
    /\ proc.child = "exited" /\ proc.returncode = 0 /\ proc.stderr # ""
    /\ proc.returned /\ proc.value = proc.argv[11]

\* C18: when backup_database or restore_database returns or raises, a child
\* it spawned has exited, and the exit code was read after communicate()
\* had returned.
C18_ChildAwaitedBeforeTheOperationEnds ==
    (proc.op # "none" /\ proc.spawned > 0) =>
      /\ proc.child = "exited"
      /\ proc.log = <<"create_subprocess_exec", "communicate", "returncode">>

\* The same call with another password in settings.database.
WithPassword(pr, pw) ==
    LET cfg == [pr.cfg EXCEPT !.password = pw]
        child == [spawn |-> "OSError", wait |-> "exit", returncode |-> 0,
                  stderr |-> ""]
    IN IF pr.op = "backup_database"
       THEN backup_database(cfg, pr.environ, pr.backup_path, pr.now, child)
       ELSE restore_database(cfg, pr.environ, pr.backup_path, child)

Variable(env, name) == {e \in env : e[1] = name}

\* C19: the command line of a backup or restore child does not depend on the
\* database password: the same call under any other password has the same
\* argv, and the two environments differ in PGPASSWORD alone, which holds the
\* password.
C19_PasswordOnlyInPGPASSWORD ==
    proc.op # "none" =>
      \A pw \in Passwords :
          /\ WithPassword(proc, pw).argv = proc.argv
          /\ WithPassword(proc, pw).env \ Variable(WithPassword(proc, pw).env, "PGPASSWORD")
                = proc.env \ Variable(proc.env, "PGPASSWORD")
          /\ Variable(WithPassword(proc, pw).env, "PGPASSWORD") = {<<"PGPASSWORD", pw>>}
          /\ Variable(proc.env, "PGPASSWORD") = {<<"PGPASSWORD", proc.cfg.password>>}

\* A backup child spawned under a non-empty password, from an environment
\* that already carried a PGPASSWORD.
C19_Witness ==
    /\ proc.op = "backup_database" /\ proc.spawned = 1
    /\ proc.cfg.password = "s3cret"
    /\ <<"PGPASSWORD", "stale">> \in proc.environ

\* C20: the callers holding a connection never outnumber pool_size +
\* max_overflow; a caller that acquires while that many are held waits, and a
\* waiting caller gets a connection only when fewer are held; every waiting
\* caller is served or fails, none waits forever.
C20_PoolBoundsConcurrentSessions ==
    /\ [](pool.created => CheckedOut(pool) <= pool.pool_size + pool.max_overflow)
    /\ [][\A c \in Callers :
            /\ (pool.at[c] = "idle" /\ pool'.at[c] # "idle"
                   /\ CheckedOut(pool) = pool.pool_size + pool.max_overflow)
                  => pool'.at[c] = "waiting"
            /\ (pool.at[c] = "waiting" /\ pool'.at[c] = "holding")
                  => CheckedOut(pool) < pool.pool_size + pool.max_overflow]_vars
    /\ \A c \in Callers :
          (pool.at[c] = "waiting") ~> (pool.at[c] \in {"holding", "failed"})

\* A saturated pool with one caller waiting and one that has failed.
C20_Witness ==
    /\ pool.created
    /\ CheckedOut(pool) = pool.pool_size + pool.max_overflow
    /\ \E c \in Callers : pool.at[c] = "waiting"
    /\ \E c \in Callers : pool.at[c] = "failed"

\* The call a relational command of the script makes on the manager.
RelationalCall(command) ==
    CASE command = "create" -> "create_tables"
      [] command = "seed" -> "seed_database"
      [] command = "indexes" -> "create_indexes"
      [] OTHER -> ""

\* C21: a cache outage does not block relational operations: a run of the
\* script for create, seed or indexes that finds the relational store
\* reachable and the cache unreachable at initialize() still reaches its
\* relational operation.  (After a run whose initialize() failed, pgUp and
\* redisUp are the backends as initialize() found them.)
C21_CacheOutageDoesNotBlockRelational ==
    (/\ cli.ran
     /\ CliCommand \in {"create", "seed", "indexes"}
     /\ ~cli.up.init /\ pgUp /\ ~redisUp) =>
      \E i \in 1..Len(cli.calls) : cli.calls[i] = RelationalCall(CliCommand)

\* C22: the file a backup writes is at the path the caller chose (the path
\* argument of `backup`, or the default /tmp/..._<timestamp>.dump when none is
\* given), and the path reported back is that same path.
C22_ArtifactAtTheChosenPath ==
    /\ (cli.ran /\ CliCommand = "backup") =>
          proc.backup_path =
            (IF Len(cli.argv) > 2 THEN cli.argv[3]
             ELSE "/tmp/connectifyvpn_backup_" \o proc.now \o ".dump")
    /\ (proc.op = "backup_database" /\ proc.spawned > 0) =>
          /\ proc.argv[11] = proc.backup_path
          /\ proc.returned => proc.value = proc.backup_path

\* C25: when the task awaiting a backup or restore is cancelled while the
\* child is running, the cancellation reaches the caller and the child has
\* been terminated: no child is left running after the operation ends.
C25_CancellationTerminatesTheChild ==
    (proc.op # "none" /\ proc.error.type = "CancelledError") =>
      proc.child # "running"

\* C27: in every run of the script that constructed the manager, whatever
\* the command and however it ended (initialize() raising, the command
\* succeeding or raising, an unknown command, sys.exit inside the try),
\* DatabaseManager.close() is called exactly once, and it is the last call
\* the run makes on the database.
C27_CloseExactlyOnceAndLast ==
    (cli.ran /\ Len(cli.argv) >= 2) =>
      /\ Calls(cli.calls, "close") = 1
      /\ cli.calls[Len(cli.calls)] = "close"
      /\ close_calls = 1

\* A check run that left through sys.exit(1) inside the try, closed after it.
C27_Witness ==
    /\ cli.ran /\ CliCommand = "check" /\ cli.exit_code = 1
    /\ cli.calls = <<"initialize", "health_check", "close">>
    /\ close_calls = 1

\* C28: a seed run inserts server rows only if it also inserted the plan
\* batch: a run that finds at least one active plan inserts no server row,
\* whatever the number of server rows, and no seed run removes a plan row, so
\* no later run does either.
C28_ServersOnlyWithThePlanBatch ==
    ret.op = "seed" =>
      /\ ret.seed.servers_inserted > 0 => ret.seed.plans_inserted = PlanBatch
      /\ ret.sess.before.plans > 0 => ret.seed.servers_inserted = 0
      /\ ret.sess.after.plans >= ret.sess.before.plans
      /\ store = ret.sess.after

\* A completed run on a store with active plans and no server row.
C28_Witness ==
    /\ ret.op = "seed" /\ ret.sess.entered /\ ~ret.raised
    /\ ret.sess.before.plans > 0 /\ ret.sess.before.servers = 0
    /\ ret.seed.plan_count > 0
    /\ store.servers = 0

ServerPhase == {"server_count", "server_add", "server_commit"}

\* C29: the plan batch is committed before the server check: when the server
\* count query, a server insert or the server commit fails, the scoped
\* session rolls back and the error reaches the caller, and the plan rows of
\* that run stay in the store while no server row does.
C29_PlanBatchSurvivesAServerFailure ==
    (ret.op = "seed" /\ ret.seed.phase_fault \cap ServerPhase # {}) =>
      /\ ret.raised
      /\ ret.sess.block_commits = 1
      /\ Calls(ret.sess.log, "rollback") = 1
      /\ ret.seed.plans_inserted = PlanBatch
      /\ ret.seed.servers_inserted = 0
      /\ store.plans = ret.sess.before.plans + PlanBatch
      /\ store.servers = ret.sess.before.servers

\* A run whose second server insert raised after the plan commit.
C29_Witness ==
    /\ ret.op = "seed" /\ ret.raised
    /\ ret.seed.phase_fault = {"server_add"}
    /\ ret.sess.before.plans = 0
    /\ store.plans = PlanBatch /\ store.servers = 0

\* C30 as stated: once an initialize() of the supervisor has failed its
\* relational probe (it built an engine and no cache client), the cache
\* client is unset, every later health_check reports the cache as false and
\* close() releases the engine only.
C30_NoCacheAfterAFailedRelationalProbe ==
    engines_created > clients_created =>
      /\ redis_client = 0
      /\ ret.op = "health_check" => <<"redis", FALSE>> \in ret.health
      /\ ret.op = "close" => ret.released = {"engine"}

\* C30: an initialize() whose relational probe fails raises before the
\* cache client is created and leaves self.redis_client as it was; and for
\* as long as no initialize() of the supervisor has got past the relational
\* probe (the client is unset), health_check reports the cache as false,
\* reachable or not, and close() releases the engine only.
C30_NoCacheUntilARelationalProbePasses ==
    /\ [](redis_client = 0 =>
            /\ ret.op = "health_check" => <<"redis", FALSE>> \in ret.health
            /\ ret.op = "close" =>
                  ret.released = (IF engine # 0 THEN {"engine"} ELSE {}))
    /\ [][(engines_created' = engines_created + 1 /\ ~pgUp) =>
            /\ ret'.op = "initialize" /\ ret'.raised
            /\ engine' = engines_created'
            /\ redis_client' = redis_client
            /\ clients_created' = clients_created]_vars

\* After an initialize() that failed on the relational probe, a health_check
\* made while the cache is reachable reports it as false.
C30_Witness ==
    /\ engines_created > clients_created
    /\ engine # 0 /\ redis_client = 0
    /\ redisUp
    /\ ret.op = "health_check"
    /\ <<"redis", FALSE>> \in ret.health

\* The required variables that are unset or empty in the environment.
Missing(environ) ==
    {i \in 1..Len(RequiredVars) : \A p \in environ : p[1] = RequiredVars[i] => p[2] = ""}

\* C26: constructing Settings raises exactly when one of the five required
\* values is empty, and then raises one ValueError whose message names
\* every required value that is empty and no other, for each of the 32
\* subsets of missing values.
C26_ValidationNamesEveryMissingValue ==
    settings.built =>
      /\ settings.raised <=> Missing(settings.environ) # {}
      /\ ~settings.raised => settings.error = NoError
      /\ settings.raised =>
            /\ settings.error.type = "ValueError"
            /\ \A i \in 1..Len(RequiredVars) :
                  (i \in Missing(settings.environ)) <=>
                    (\E k \in 1..Len(settings.errors) :
                        settings.errors[k] = RequiredVars[i] \o " is required")
            /\ Len(settings.errors) = Cardinality(Missing(settings.environ))
            /\ settings.error.message =
                  "Configuration errors: " \o Join(settings.errors, ", ")

\* Two of the five missing: one error that names both, in the order
\* validate() checks them.
C26_Witness ==
    /\ settings.built /\ settings.raised
    /\ Missing(settings.environ) = {2, 5}
    /\ settings.error.message =
          "Configuration errors: TOYYIBPAY_USER_SECRET_KEY is required, DB_PASSWORD is required"

AllIndexes == {IndexStatements[i] : i \in 1..Len(IndexStatements)}

\* C24: create_indexes raises only when one of its statements fails, never
\* because an index exists already; a run that completes leaves the indexes
\* it found plus those of the list missing before, one per name, in whatever
\* order the statements run, so a second run changes nothing; a run in
\* which a statement fails leaves the indexes exactly as it found them.
C24_IndexBatchRepeatableAndAtomic ==
    ret.op = "create_indexes" =>
      /\ ret.raised <=> ret.batch.fault_at # 0
      /\ ~ret.raised =>
            /\ indexes = ret.batch.before \cup AllIndexes
            /\ ret.batch.before = AllIndexes => indexes = ret.batch.before
      /\ ret.raised => indexes = ret.batch.before
      /\ \A a, b \in indexes : a.name = b.name => a = b
      /\ Cardinality(AllIndexes) = Len(IndexStatements)

\* A second run, in another order than the first, on a store that holds
\* every index already.
C24_Witness ==
    /\ ret.op = "create_indexes" /\ ~ret.raised
    /\ ret.batch.before = AllIndexes
    /\ ret.batch.stmts # IndexStatements
    /\ indexes = AllIndexes

C31_CloseTouchesOnlyWhatWasAssigned ==
    [][(close_calls' = close_calls + 1) =>
          /\ ret'.op = "close"
          /\ ~ret'.raised
          /\ ("engine" \in ret'.released) <=> engine # 0
          /\ ("redis_client" \in ret'.released) <=> redis_client # 0
          /\ ret'.released \subseteq {"engine", "redis_client"}
          /\ \A e \in DOMAIN pool_disposals :
                pool_disposals'[e] =
                  pool_disposals[e] + (IF e = engine THEN 1 ELSE 0)
          /\ \A c \in DOMAIN client_closes :
                client_closes'[c] =
                  client_closes[c] + (IF c = redis_client THEN 1 ELSE 0)
          /\ UNCHANGED <<engine, session_factory, redis_client>>]_vars

\* close() after an initialize() that failed on the relational probe: the
\* engine is disposed, the cache client that was never created is left
\* alone, and the call returns.
C31_Witness ==
    /\ ret.op = "close" /\ ~ret.raised
    /\ engine # 0 /\ redis_client = 0
    /\ ret.released = {"engine"}
    /\ pool_disposals[engine] = 1
    /\ \A c \in DOMAIN client_closes : client_closes[c] = 0


====
